---- MODULE Spec2Model ----
(***************************************************************************)
(* A model of langchain/clickhouse.py: the ClickHouseDataBase wrapper      *)
(* (table-visibility resolution, schema-info rendering, guarded command    *)
(* execution) together with the store it talks to.                         *)
(*                                                                         *)
(* Representation of Python values:                                        *)
(*   - a Python str that may hold newlines is a Text: the non-empty        *)
(*     sequence of its lines (the str split on "\n"), so "" is <<"">> and  *)
(*     "a\n\nb" is <<"a", "", "b">>; Cat is str concatenation on Texts;    *)
(*   - an exception is a record [type, msg, names]: its class, str(e)      *)
(*     and, for the "not found" ValueErrors, the set of names it reports;  *)
(*   - the outcome of a call is a record [raised, exc, names, text,        *)
(*     blocks]: either the exception that left the call, or its return     *)
(*     value (names for a set of tables, text for a str).                  *)
(***************************************************************************)
EXTENDS Integers, Sequences, FiniteSets, TLC

\* ------------------------------------------------------------- bounds
NumTables == 2       \* table names the store and the caller draw from
MaxRequested == 2    \* longest table_names list passed to get_table_info

\* sample_rows_in_table_info when sampling is on (any positive count)
SampleRows == 1

\* --------------------------------------------------------- the store
TableUniverse == <<"orders", "users", "events", "audit">>
Names == {TableUniverse[i] : i \in 1..NumTables}

\* rows of DESCRIBE <t>: (name, type)
DescribeRows(t) ==
  CASE t = "orders" -> << <<"id", "UInt64">>, <<"day", "Date">>, <<"amount", "Float64">> >>
    [] t = "users"  -> << <<"name", "String">> >>
    [] t = "events" -> << <<"ts", "DateTime">>, <<"kind", "String">> >>
    [] OTHER        -> << <<"line", "String">> >>

\* rows of SELECT name FROM system.columns WHERE ... is_in_primary_key=1
PrimaryKeyRows(t) ==
  CASE t = "orders" -> << <<"id">>, <<"day">> >>
    [] t = "users"  -> << >>
    [] t = "events" -> << <<"ts">> >>
    [] OTHER        -> << <<"line">> >>

\* rows of the table itself, as the SAMPLE query returns them
TableRows(t) ==
  CASE t = "orders" -> << <<"1", "2023-01-01", "9.5">>, <<"2", "2023-01-02", "3.0">> >>
    [] t = "users"  -> << <<"ann">> >>
    [] t = "events" -> << >>
    [] OTHER        -> << <<"boot">> >>

\* failures the driver raises for a command (clickhouse_connect's exception classes)
StoreFailures ==
  { [type |-> "DatabaseError", msg |-> "Code: 60. DB::Exception: Unknown table", names |-> {}],
    [type |-> "OperationalError", msg |-> "Connection refused", names |-> {}] }

\* Python's exception hierarchy, as far as the except clauses need it
IsInstance(exc, cls) ==
  \/ exc.type = cls
  \/ cls = "Exception" /\ exc.type \in {"ValueError", "TypeError", "DatabaseError", "OperationalError"}

NoExc == [type |-> "", msg |-> "", names |-> {}]

\* ------------------------------------------------------ str rendering
Min(a, b) == IF a < b THEN a ELSE b

RECURSIVE JoinStr(_, _)
JoinStr(sep, seq) ==
  IF Len(seq) = 0 THEN ""
  ELSE IF Len(seq) = 1 THEN seq[1]
  ELSE seq[1] \o sep \o JoinStr(sep, Tail(seq))

Repr(s) == "'" \o s \o "'"
ReprAll(seq) == [i \in DOMAIN seq |-> Repr(seq[i])]

\* str(list of str), str(tuple of str), str(set of str) in a given iteration order
StrList(seq) == "[" \o JoinStr(", ", ReprAll(seq)) \o "]"
StrTuple(seq) ==
  IF Len(seq) = 1 THEN "(" \o Repr(seq[1]) \o ",)"
  ELSE "(" \o JoinStr(", ", ReprAll(seq)) \o ")"
StrSet(seq) == "{" \o JoinStr(", ", ReprAll(seq)) \o "}"

Digit(d) ==
  CASE d = 0 -> "0" [] d = 1 -> "1" [] d = 2 -> "2" [] d = 3 -> "3" [] d = 4 -> "4"
    [] d = 5 -> "5" [] d = 6 -> "6" [] d = 7 -> "7" [] d = 8 -> "8" [] OTHER -> "9"

RECURSIVE StrNat(_)
StrNat(n) == IF n < 10 THEN Digit(n) ELSE StrNat(n \div 10) \o Digit(n % 10)
StrInt(n) == IF n < 0 THEN "-" \o StrNat(0 - n) ELSE StrNat(n)

\* str concatenation on Texts: the last line of a and the first of b become one line
Cat(a, b) ==
  SubSeq(a, 1, Len(a) - 1) \o <<a[Len(a)] \o b[1]>> \o SubSeq(b, 2, Len(b))

\* sep.join(texts)
RECURSIVE JoinText(_, _)
JoinText(sep, texts) ==
  IF Len(texts) = 0 THEN <<"">>
  ELSE IF Len(texts) = 1 THEN texts[1]
  ELSE Cat(texts[1], Cat(sep, JoinText(sep, Tail(texts))))

\* the iteration orders of a set: its duplicate-free enumerations
Orders(S) ==
  {q \in [1..Cardinality(S) -> S] : \A i, j \in 1..Cardinality(S) : q[i] = q[j] => i = j}

Range(seq) == {seq[i] : i \in DOMAIN seq}

\* ------------------------------------------------------------- state
VARIABLES
  store_tables,   \* the tables the store lists now (SHOW TABLES)
  self,           \* the ClickHouseDataBase object, or NoObject
  supplied,       \* the custom_table_info argument of the last construction
  issued,         \* the commands the last call sent to the store, in order
  last            \* the last call: its name, arguments and outcome

vars == <<store_tables, self, supplied, issued, last>>

EmptyMap == [t \in {} |-> <<"">>]

NoObject ==
  [constructed |-> FALSE, indexes_in_table_info |-> FALSE, sample_rows_in_table_info |-> 0,
   include_tables |-> {}, ignore_tables |-> {}, all_tables |-> {}, usable_tables |-> {},
   custom_table_info |-> EmptyMap]

\* outcomes of a call
Returned(names, text, blocks) ==
  [raised |-> FALSE, exc |-> NoExc, names |-> names, text |-> text, blocks |-> blocks]
Raised(exc) ==
  [raised |-> TRUE, exc |-> exc, names |-> {}, text |-> <<"">>, blocks |-> <<>>]

Cmd(kind, table, ok) == [cmd |-> kind, table |-> table, ok |-> ok]

\* the iteration order of a Python set S, given an enumeration `order` of (at least) S
IterOrder(S, order) == SelectSeq(order, LAMBDA t : t \in S)

\* ------------------------------------------------- the Table Catalog
\* SHOW TABLES: one row per table of the store, in the store's order
ShowTablesRows(tables) ==
  [i \in DOMAIN IterOrder(tables, TableUniverse) |-> <<IterOrder(tables, TableUniverse)[i]>>]

\* get_all_table_names: row[0] of every row of SHOW TABLES
get_all_table_names(result_rows) == [i \in DOMAIN result_rows |-> result_rows[i][1]]

\* (mutation) the accessor asks the store again instead of reading the cached set
AllTablesOf_live(obj) == store_tables

\* the set the accessor reads as self._all_tables
AllTablesOf(obj) == obj.all_tables

\* (mutation) the include list is returned without being validated
get_usable_table_names_unvalidated(obj, order) ==
  IF obj.include_tables # {}
  THEN Returned(obj.include_tables, <<"">>, <<>>)
  ELSE Returned(AllTablesOf(obj) \ obj.ignore_tables, <<"">>, <<>>)

\* get_usable_table_names: include list (validated against _all_tables), else
\* _all_tables minus the ignore list
get_usable_table_names(obj, order) ==
  IF obj.include_tables # {}
  THEN LET missing_tables == obj.include_tables \ AllTablesOf(obj)
       IN IF missing_tables # {}
          THEN Raised([type |-> "ValueError",
                       msg |-> "include_tables " \o StrSet(IterOrder(missing_tables, order))
                               \o " not found in database",
                       names |-> missing_tables])
          ELSE Returned(obj.include_tables, <<"">>, <<>>)
  ELSE Returned(AllTablesOf(obj) \ obj.ignore_tables, <<"">>, <<>>)

\* (mutation) every supplied entry is kept
FilterCustomTableInfo_keep_all(custom, usable_tables) == custom

\* only keep the custom entries whose table is usable
FilterCustomTableInfo(custom, usable_tables) ==
  LET intersection == (DOMAIN custom) \cap usable_tables
  IN [t \in {k \in DOMAIN custom : k \in intersection} |-> custom[t]]

\* whether __init__ rejects include and ignore given together
BothGiven(obj) == obj.include_tables # {} /\ obj.ignore_tables # {}

\* __init__: [outcome, obj, log]. args is the argument record, tables the store's
\* table list, fault what fails ("none", "connect", "show"), err the store's error.
__init__(args, tables, fault, err, order) ==
  IF fault = "connect"
  THEN [outcome |-> Raised(err), obj |-> NoObject, log |-> <<>>]
  ELSE
    LET log == <<Cmd("SHOW TABLES", "", fault # "show")>>
    IN IF fault = "show"
       THEN [outcome |-> Raised(err), obj |-> NoObject, log |-> log]
       ELSE
         LET obj1 == [constructed |-> FALSE,
                      indexes_in_table_info |-> args.indexes_in_table_info,
                      sample_rows_in_table_info |-> args.sample_rows_in_table_info,
                      include_tables |-> args.include_tables,
                      ignore_tables |-> args.ignore_tables,
                      all_tables |-> Range(get_all_table_names(ShowTablesRows(tables))),
                      usable_tables |-> {},
                      custom_table_info |-> EmptyMap]
             usable == get_usable_table_names(obj1, order)
         IN IF usable.raised
            THEN [outcome |-> usable, obj |-> NoObject, log |-> log]
            ELSE IF BothGiven(obj1)
            THEN [outcome |-> Raised([type |-> "ValueError",
                                      msg |-> "Cannot specify both include_tables and ignore_tables",
                                      names |-> {}]),
                  obj |-> NoObject, log |-> log]
            ELSE IF DOMAIN args.custom_table_info # {} /\ ~args.custom_is_dict
            THEN [outcome |-> Raised([type |-> "TypeError",
                                      msg |-> "table_info must be a dictionary with table names as keys and the desired table info as values",
                                      names |-> {}]),
                  obj |-> NoObject, log |-> log]
            ELSE [outcome |-> Returned({}, <<"">>, <<>>),
                  obj |-> [obj1 EXCEPT !.constructed = TRUE,
                                       !.usable_tables = usable.names,
                                       !.custom_table_info =
                                          FilterCustomTableInfo(args.custom_table_info, usable.names)],
                  log |-> log]

\* --------------------------------------------- the Schema Introspector
\* what the store does during one get_table_info call, query by query: the loop
\* sends its queries once per iteration, so a fault is a fault of one iteration.
\* env.fatal is the DESCRIBE or primary-key query that fails: its kind and the
\* iteration it is sent in, counted from the iteration at hand (1 is this one;
\* [kind |-> "none"] for no such failure), with error env.err; env.sample_fail the
\* iterations whose SAMPLE query fails; env.order the iteration order of the set
Fails(env, kind) == env.fatal.kind = kind /\ env.fatal.at = 1
SampleFails(env) == 1 \in env.sample_fail

\* the store as the next iteration of the loop sees it
NextIteration(env) ==
  [env EXCEPT !.fatal.at = @ - 1, !.sample_fail = {k - 1 : k \in @ \ {1}}]

\* a query result's result_rows seen as result_columns: one list per selected column
ResultColumns(column_names, result_rows) ==
  [c \in DOMAIN column_names |-> [r \in DOMAIN result_rows |-> result_rows[r][c]]]

\* the loop over indexes_result.result_columns: one "Primary keys are ..." line each
RECURSIVE IndexesText(_)
IndexesText(result_columns) ==
  IF Len(result_columns) = 0 THEN <<"">>
  ELSE Cat(<<"Primary keys are " \o StrList(result_columns[1]), "">>,
           IndexesText(Tail(result_columns)))

\* the sample block appended when the SAMPLE query succeeds
SampleText(t, limit) ==
  LET columns == get_all_table_names(DescribeRows(t))
      rows == SubSeq(TableRows(t), 1, Min(limit, Len(TableRows(t))))
      sample_rows == JoinText(<<"", "">>, [i \in DOMAIN rows |-> <<StrTuple(rows[i])>>])
  IN Cat(Cat(<<"", "", "-- Sample Rows:", "-- " \o JoinStr(", ", columns), "">>, sample_rows),
         <<"", "">>)

\* The loop body of get_table_info is a chain of steps. Each step takes the state
\* st = [raised, exc, text, log] of the table's description so far (text is
\* table_info, log the commands sent) and gives the state after it; a step after
\* an exception does nothing.

\* table_query / table_result / table_info = str(table_column_names)
DescribeStep(t, env) ==
  IF Fails(env, "describe")
  THEN [raised |-> TRUE, exc |-> env.err, text |-> <<"">>, log |-> <<Cmd("DESCRIBE", t, FALSE)>>]
  ELSE [raised |-> FALSE, exc |-> NoExc,
        text |-> <<StrList(get_all_table_names(DescribeRows(t)))>>,
        log |-> <<Cmd("DESCRIBE", t, TRUE)>>]

has_extra_info(obj) == obj.indexes_in_table_info \/ obj.sample_rows_in_table_info # 0

\* if has_extra_info: table_info += "\n\n/*"
OpenStep(obj, st) ==
  IF st.raised \/ ~has_extra_info(obj) THEN st
  ELSE [st EXCEPT !.text = Cat(@, <<"", "", "/*">>)]

\* if self._indexes_in_table_info: the primary-key query and its lines
IndexesStep(obj, t, env, st) ==
  IF st.raised \/ ~obj.indexes_in_table_info THEN st
  ELSE IF Fails(env, "pk")
  THEN [st EXCEPT !.raised = TRUE, !.exc = env.err, !.text = <<"">>,
                  !.log = @ \o <<Cmd("PRIMARY KEYS", t, FALSE)>>]
  ELSE [st EXCEPT !.text = Cat(@, Cat(<<"", "">>,
                                      Cat(IndexesText(ResultColumns(<<"name">>, PrimaryKeyRows(t))),
                                          <<"", "">>))),
                  !.log = @ \o <<Cmd("PRIMARY KEYS", t, TRUE)>>]

\* (mutation) a failing SAMPLE query is not caught
SampleStep_uncaught(obj, t, env, st) ==
  IF st.raised \/ obj.sample_rows_in_table_info = 0 THEN st
  ELSE IF SampleFails(env)
  THEN [st EXCEPT !.raised = TRUE, !.exc = env.err, !.text = <<"">>,
                  !.log = @ \o <<Cmd("SAMPLE", t, FALSE)>>]
  ELSE [st EXCEPT !.text = Cat(@, SampleText(t, obj.sample_rows_in_table_info)),
                  !.log = @ \o <<Cmd("SAMPLE", t, TRUE)>>]

\* if self._sample_rows_in_table_info: try the SAMPLE query and append its block;
\* except Exception: print a diagnostic and go on
SampleStep(obj, t, env, st) ==
  IF st.raised \/ obj.sample_rows_in_table_info = 0 THEN st
  ELSE IF SampleFails(env)
  THEN [st EXCEPT !.log = @ \o <<Cmd("SAMPLE", t, FALSE)>>]
  ELSE [st EXCEPT !.text = Cat(@, SampleText(t, obj.sample_rows_in_table_info)),
                  !.log = @ \o <<Cmd("SAMPLE", t, TRUE)>>]

\* if has_extra_info: table_info += "*/"
CloseStep(obj, st) ==
  IF st.raised \/ ~has_extra_info(obj) THEN st
  ELSE [st EXCEPT !.text = Cat(@, <<"*/">>)]

\* after DESCRIBE: the custom entry, if there is one, else the introspected text
CustomOrIntrospected(obj, t, env, st) ==
  IF st.raised THEN st
  ELSE IF DOMAIN obj.custom_table_info # {} /\ t \in DOMAIN obj.custom_table_info
  THEN [st EXCEPT !.text = obj.custom_table_info[t]]
  ELSE CloseStep(obj, SampleStep(obj, t, env, IndexesStep(obj, t, env, OpenStep(obj, st))))

\* the body of the loop of get_table_info for one table: [raised, exc, text, log]
TableBlock(obj, t, env) == CustomOrIntrospected(obj, t, env, DescribeStep(t, env))

\* tables.append(...), seen from the end of the loop: block b of table t before the
\* outcome `rest` of the tables after it
AppendBlock(t, b, rest) ==
  [raised |-> rest.raised, exc |-> rest.exc,
   blocks |-> IF rest.raised THEN <<>> ELSE <<[table |-> t, text |-> b.text]>> \o rest.blocks,
   log |-> b.log \o rest.log]

\* the loop over all_table_names: [raised, exc, blocks, log], blocks the list `tables`
\* with the table each entry describes
RECURSIVE DescribeEach(_, _, _)
DescribeRest(obj, targets, env, b) ==
  IF b.raised
  THEN [raised |-> TRUE, exc |-> b.exc, blocks |-> <<>>, log |-> b.log]
  ELSE AppendBlock(targets[1], b, DescribeEach(obj, Tail(targets), NextIteration(env)))

DescribeEach(obj, targets, env) ==
  IF Len(targets) = 0
  THEN [raised |-> FALSE, exc |-> NoExc, blocks |-> <<>>, log |-> <<>>]
  ELSE DescribeRest(obj, targets, env, TableBlock(obj, targets[1], env))

\* final_str = "\n\n".join(tables)
FinalStr(each) ==
  IF each.raised
  THEN [outcome |-> Raised(each.exc), log |-> each.log]
  ELSE [outcome |-> Returned({}, JoinText(<<"", "", "">>,
                                          [i \in DOMAIN each.blocks |-> each.blocks[i].text]),
                             each.blocks),
        log |-> each.log]

\* get_table_info once get_usable_table_names has given `usable`
DescribeTargets(obj, req, env, usable) ==
  IF usable.raised
  THEN [outcome |-> usable, log |-> <<>>]
  ELSE IF req.given /\ Range(req.table_names) \ usable.names # {}
  THEN [outcome |-> Raised([type |-> "ValueError",
                            msg |-> "table_names "
                                    \o StrSet(IterOrder(Range(req.table_names) \ usable.names, env.order))
                                    \o " not found in database",
                            names |-> Range(req.table_names) \ usable.names]),
        log |-> <<>>]
  ELSE FinalStr(DescribeEach(obj,
                             IF req.given THEN req.table_names
                             ELSE IterOrder(usable.names, env.order),
                             env))

\* get_table_info: [outcome, log]. req is [given, table_names]: given is FALSE for
\* table_names=None
get_table_info(obj, req, env) ==
  DescribeTargets(obj, req, env, get_usable_table_names(obj, env.order))

\* the exception class get_table_info_no_throw catches
NoThrowCatches == "ValueError"

\* except ValueError as e: return f"Error: {e}"
CatchAsError(r) ==
  IF r.outcome.raised /\ IsInstance(r.outcome.exc, NoThrowCatches)
  THEN [outcome |-> Returned({}, Cat(<<"Error: ">>, <<r.outcome.exc.msg>>), <<>>), log |-> r.log]
  ELSE r

\* get_table_info_no_throw: a caught exception becomes "Error: <message>"
get_table_info_no_throw(obj, req, env) == CatchAsError(get_table_info(obj, req, env))

\* ------------------------------------------------ the Guarded Executor
\* what conn.command can give back: nothing (None), an int, a bool, a str, a list of str
None == [kind |-> "none", n |-> 0, b |-> FALSE, s |-> "", items |-> <<>>]
IntValue(n) == [None EXCEPT !.kind = "int", !.n = n]
BoolValue(b) == [None EXCEPT !.kind = "bool", !.b = b]
StrValue(s) == [None EXCEPT !.kind = "str", !.s = s]
ListValue(items) == [None EXCEPT !.kind = "list", !.items = items]

\* Python truth value
Truthy(v) ==
  CASE v.kind = "int"  -> v.n # 0
    [] v.kind = "bool" -> v.b
    [] v.kind = "str"  -> v.s # ""
    [] v.kind = "list" -> Len(v.items) # 0
    [] OTHER           -> FALSE

\* str(v)
Str(v) ==
  CASE v.kind = "int"  -> StrInt(v.n)
    [] v.kind = "bool" -> IF v.b THEN "True" ELSE "False"
    [] v.kind = "str"  -> v.s
    [] v.kind = "list" -> StrList(v.items)
    [] OTHER           -> "None"

\* (mutation) run_no_throw catches what get_table_info_no_throw catches
RunCatches_ValueError == "ValueError"

\* the exception class run_no_throw catches
RunCatches == "Exception"

\* run_no_throw: [outcome, log]. response is what conn.command does: [ok, err, result]
run_no_throw(obj, command, response) ==
  LET log == <<Cmd(command, "", response.ok)>>
  IN IF ~response.ok
     THEN IF IsInstance(response.err, RunCatches)
          THEN [outcome |-> Returned({}, Cat(<<"Error: ">>, <<response.err.msg>>), <<>>), log |-> log]
          ELSE [outcome |-> Raised(response.err), log |-> log]
     ELSE IF Truthy(response.result)
     THEN [outcome |-> Returned({}, <<Str(response.result)>>, <<>>), log |-> log]
     ELSE [outcome |-> Returned({}, <<"">>, <<>>), log |-> log]

\* ------------------------------------------------------------ inputs
SampleRowsChoices == {0, SampleRows}

\* the text a caller supplies for table t in custom_table_info
CustomText(t) == <<"CREATE TABLE " \o t \o " (", "  -- described by hand", ")">>

\* custom_table_info arguments: a mapping from some names to their texts
CustomChoices == {[t \in K |-> CustomText(t)] : K \in SUBSET Names}

ConstructorArgs ==
  [include_tables : SUBSET Names, ignore_tables : SUBSET Names,
   custom_table_info : CustomChoices, custom_is_dict : BOOLEAN,
   sample_rows_in_table_info : SampleRowsChoices, indexes_in_table_info : BOOLEAN]

\* table_names arguments: None, or a list of at most MaxRequested names
SeqsUpTo(S, n) == UNION {[1..k -> S] : k \in 0..n}
Requests ==
  {[given |-> FALSE, table_names |-> <<>>]}
    \cup {[given |-> TRUE, table_names |-> q] : q \in SeqsUpTo(Names, MaxRequested)}

NoFault == [kind |-> "none", at |-> 0]

\* the ways the store can behave while the loop runs over the list `targets`:
\* which iteration's DESCRIBE or primary-key query fails, and which iterations'
\* SAMPLE queries fail. Only the queries the loop can send are given faults: a
\* fault on a query that is never sent changes nothing.
LoopEnvs(obj, targets, order) ==
  LET introspected == {k \in DOMAIN targets : targets[k] \notin DOMAIN obj.custom_table_info}
      sample_fails == IF obj.sample_rows_in_table_info # 0 THEN SUBSET introspected ELSE {{}}
      faults == {[kind |-> "describe", at |-> k] : k \in DOMAIN targets}
                  \cup {[kind |-> "pk", at |-> k] :
                          k \in IF obj.indexes_in_table_info THEN introspected ELSE {}}
  IN {[order |-> order, fatal |-> NoFault, err |-> NoExc, sample_fail |-> F] : F \in sample_fails}
       \cup {[order |-> order, fatal |-> f, err |-> e, sample_fail |-> F] :
               f \in faults, e \in StoreFailures, F \in sample_fails}

\* the ways the store and the interpreter can behave during get_table_info(req):
\* the iteration order of the one set the call iterates, and the store's faults
Envs(obj, req) ==
  LET missing == IF req.given THEN Range(req.table_names) \ obj.usable_tables ELSE {}
  IN IF missing # {}
     THEN {[order |-> o, fatal |-> NoFault, err |-> NoExc, sample_fail |-> {}] : o \in Orders(missing)}
     ELSE IF req.given
     THEN LoopEnvs(obj, req.table_names, <<>>)
     ELSE UNION {LoopEnvs(obj, o, o) : o \in Orders(obj.usable_tables)}

Commands == {"SELECT count() FROM orders", "OPTIMIZE TABLE users"}

CommandResults ==
  {None, IntValue(0), IntValue(42), BoolValue(FALSE), BoolValue(TRUE),
   StrValue(""), StrValue("ok"), ListValue(<<>>), ListValue(<<"a", "b">>)}

Responses ==
  {[ok |-> TRUE, err |-> NoExc, result |-> v] : v \in CommandResults}
    \cup {[ok |-> FALSE, err |-> e, result |-> None] : e \in StoreFailures}

NoArgs ==
  [include_tables |-> {}, ignore_tables |-> {}, given |-> FALSE, table_names |-> <<>>,
   command |-> "", result |-> None, err |-> NoExc]

Call(op, args, outcome) == [op |-> op, args |-> args, outcome |-> outcome]

Idle == Call("none", NoArgs, Returned({}, <<"">>, <<>>))

\* ----------------------------------------------------------- actions
Init ==
  /\ store_tables \in SUBSET Names
  /\ self = NoObject
  /\ supplied = EmptyMap
  /\ issued = <<>>
  /\ last = Idle

\* ClickHouseDataBase(...): a failed construction leaves no object
Construct ==
  /\ last = Idle
  /\ ~self.constructed
  /\ \E a \in ConstructorArgs, fault \in {"none", "connect", "show"} :
     \E err \in IF fault = "none" THEN {NoExc} ELSE StoreFailures,
        order \in Orders(a.include_tables \ store_tables) :
       LET r == __init__(a, store_tables, fault, err, order)
       IN /\ self' = r.obj
          /\ supplied' = a.custom_table_info
          /\ issued' = r.log
          /\ last' = Call("__init__", [NoArgs EXCEPT !.include_tables = a.include_tables,
                                                     !.ignore_tables = a.ignore_tables,
                                                     !.err = err], r.outcome)
  /\ UNCHANGED store_tables

\* db.get_usable_table_names()
GetUsableTableNames ==
  /\ last = Idle
  /\ self.constructed
  /\ \E order \in Orders(self.include_tables \ self.all_tables) :
       last' = Call("get_usable_table_names", NoArgs, get_usable_table_names(self, order))
  /\ issued' = <<>>
  /\ UNCHANGED <<store_tables, self, supplied>>

\* db.get_table_info(table_names)
GetTableInfo ==
  /\ last = Idle
  /\ self.constructed
  /\ \E req \in Requests :
       \E env \in Envs(self, req) :
         LET r == get_table_info(self, req, env)
         IN /\ last' = Call("get_table_info",
                            [NoArgs EXCEPT !.given = req.given, !.table_names = req.table_names,
                                           !.err = env.err],
                            r.outcome)
            /\ issued' = r.log
  /\ UNCHANGED <<store_tables, self, supplied>>

\* db.get_table_info_no_throw(table_names)
GetTableInfoNoThrow ==
  /\ last = Idle
  /\ self.constructed
  /\ \E req \in Requests :
       \E env \in Envs(self, req) :
         LET r == get_table_info_no_throw(self, req, env)
         IN /\ last' = Call("get_table_info_no_throw",
                            [NoArgs EXCEPT !.given = req.given, !.table_names = req.table_names,
                                           !.err = env.err],
                            r.outcome)
            /\ issued' = r.log
  /\ UNCHANGED <<store_tables, self, supplied>>

\* db.run_no_throw(command)
RunNoThrow ==
  /\ last = Idle
  /\ self.constructed
  /\ \E command \in Commands, response \in Responses :
       LET r == run_no_throw(self, command, response)
       IN /\ last' = Call("run_no_throw",
                          [NoArgs EXCEPT !.command = command, !.result = response.result,
                                         !.err = response.err],
                          r.outcome)
          /\ issued' = r.log
  /\ UNCHANGED <<store_tables, self, supplied>>

\* the caller takes the outcome of the call; a failed construction left no object
Consume ==
  /\ last # Idle
  /\ last' = Idle
  /\ issued' = <<>>
  /\ supplied' = IF self.constructed THEN supplied ELSE EmptyMap
  /\ UNCHANGED <<store_tables, self>>

\* a table is created in or dropped from the store, outside the object
SchemaChange ==
  /\ last = Idle
  /\ \E t \in Names :
       store_tables' = IF t \in store_tables THEN store_tables \ {t} ELSE store_tables \cup {t}
  /\ UNCHANGED <<self, supplied, issued, last>>

\* the object and its callers, over a store whose tables stay as they are
Next ==
  \/ Construct
  \/ GetUsableTableNames
  \/ GetTableInfo
  \/ GetTableInfoNoThrow
  \/ RunNoThrow
  \/ Consume

Spec == Init /\ [][Next]_vars

\* the Table Catalog over a store whose tables change after construction
NextDrift ==
  \/ Construct
  \/ GetUsableTableNames
  \/ Consume
  \/ SchemaChange

DriftSpec == Init /\ [][NextDrift]_vars

\* ------------------------------------------------------------ claims
IsTableInfoCall == last.op \in {"get_table_info", "get_table_info_no_throw"}

\* the commands of the last call that failed, and those sent for table t
FailedCmds(kinds) == {i \in DOMAIN issued : issued[i].cmd \in kinds /\ ~issued[i].ok}
CmdsFor(t) == {i \in DOMAIN issued : issued[i].table = t}

\* "Error: <message>" for the error the store raised during the last call
ErrorText == <<"Error: " \o last.args.err.msg>>

\* C1: run_no_throw never lets an exception out: whatever the command and whatever
\* the store raises while executing it, the call returns, and a failed command
\* returns "Error: <message>" with the message of the failure.
C1_RunNeverRaises ==
  last.op = "run_no_throw" =>
    /\ ~last.outcome.raised
    /\ ~issued[1].ok => last.outcome.text = ErrorText

C1_Witness ==
  /\ last.op = "run_no_throw"
  /\ ~issued[1].ok
  /\ last.args.err.type = "OperationalError"
  /\ last.outcome.text = <<"Error: Connection refused">>

\* C2: when the command succeeds, run_no_throw returns "" exactly when the command
\* produced no result (or a result whose rendering is itself ""), and otherwise the
\* str() of the result: also for 0, False and an empty row list.
C2_RendersEveryResult ==
  (last.op = "run_no_throw" /\ issued[1].ok) =>
    /\ last.args.result = None => last.outcome.text = <<"">>
    /\ last.args.result # None => last.outcome.text = <<Str(last.args.result)>>

\* C3: get_table_info_no_throw never raises: it returns a string for every request
\* and every outcome of the store, and a failure of the DESCRIBE or the primary-key
\* query comes back as "Error: <message>".
C3_SchemaInfoNeverRaises ==
  last.op = "get_table_info_no_throw" =>
    /\ ~last.outcome.raised
    /\ FailedCmds({"DESCRIBE", "PRIMARY KEYS"}) # {} => last.outcome.text = ErrorText

\* the message of the ValueError that names the tables of `missing`, in some order
NamesMissing(msg, prefix, missing) ==
  \E o \in Orders(missing) : msg = prefix \o " " \o StrSet(o) \o " not found in database"

\* C4: usable-table resolution is the reference operator. With All-Tables T, include
\* list I and ignore list G: I non-empty and within T gives exactly I; I non-empty
\* and not within T fails with a ValueError naming exactly I - T; I empty gives
\* exactly T - G, so ignore entries absent from T change nothing. This is checked
\* for the accessor and for the resolution done at construction.
C4_UsableTablesResolution ==
  /\ last.op = "get_usable_table_names" =>
       LET T == self.all_tables
           I == self.include_tables
           G == self.ignore_tables
       IN /\ (I # {} /\ I \subseteq T) => (~last.outcome.raised /\ last.outcome.names = I)
          /\ (I # {} /\ ~(I \subseteq T)) =>
               /\ last.outcome.raised
               /\ last.outcome.exc.names = I \ T
               /\ NamesMissing(last.outcome.exc.msg, "include_tables", I \ T)
          /\ I = {} => (~last.outcome.raised /\ last.outcome.names = {t \in T : t \notin G})
  /\ (last.op = "__init__" /\ FailedCmds({"SHOW TABLES"}) = {} /\ issued # <<>>) =>
       LET T == store_tables
           I == last.args.include_tables
           G == last.args.ignore_tables
       IN /\ (I # {} /\ I \subseteq T /\ ~last.outcome.raised) => self.usable_tables = I
          /\ (I # {} /\ I \subseteq T /\ G = {}) =>
               (last.outcome.raised => last.outcome.exc.type = "TypeError")
          /\ (I # {} /\ ~(I \subseteq T)) =>
               /\ last.outcome.raised
               /\ last.outcome.exc.type = "ValueError"
               /\ last.outcome.exc.names = I \ T
               /\ NamesMissing(last.outcome.exc.msg, "include_tables", I \ T)
          /\ I = {} =>
               /\ last.outcome.raised => last.outcome.exc.type = "TypeError"
               /\ ~last.outcome.raised => self.usable_tables = {t \in T : t \notin G}

C4_Witness ==
  /\ last.op = "__init__"
  /\ last.args.include_tables = {"orders", "users"}
  /\ store_tables = {"users"}
  /\ last.outcome.raised
  /\ last.outcome.exc.names = {"orders"}

\* C5: constructing with include_tables and ignore_tables both non-empty fails with
\* the both-given error before the table-listing command is sent to the store.
C5_BothGivenFailsBeforeCatalogQuery ==
  (/\ last.op = "__init__"
   /\ last.args.include_tables # {}
   /\ last.args.ignore_tables # {}
   /\ last.args.err = NoExc) =>
    /\ last.outcome.raised
    /\ last.outcome.exc.msg = "Cannot specify both include_tables and ignore_tables"
    /\ \A i \in DOMAIN issued : issued[i].cmd # "SHOW TABLES"

\* the tables the last get_table_info call set out to describe
Targets ==
  IF last.args.given THEN Range(last.args.table_names) ELSE self.usable_tables

\* C6: in get_table_info a target table with a Custom Table Info entry gets exactly
\* the custom text as its block, and no DESCRIBE, primary-key or SAMPLE command is
\* sent to the store for it, so no failure of such a command can reach the call.
C6_CustomEntrySkipsTheStore ==
  (IsTableInfoCall /\ Targets \subseteq self.usable_tables) =>
    /\ \A t \in Targets \cap DOMAIN self.custom_table_info : CmdsFor(t) = {}
    /\ \A i \in DOMAIN last.outcome.blocks :
         last.outcome.blocks[i].table \in DOMAIN self.custom_table_info =>
           last.outcome.blocks[i].text = self.custom_table_info[last.outcome.blocks[i].table]
    /\ (\A i \in FailedCmds({"DESCRIBE", "PRIMARY KEYS"}) :
          issued[i].table \in DOMAIN self.custom_table_info) => ~last.outcome.raised

\* whether the lines of `text` occur, in order and adjacent, among those of `out`
Occurs(text, out) ==
  \E i \in 1..Len(out) : i + Len(text) - 1 <= Len(out) /\ SubSeq(out, i, i + Len(text) - 1) = text

\* C7: after a successful construction and after any later call, the stored Custom
\* Table Info has keys within Usable-Tables, every kept entry is the text the caller
\* supplied, and the text supplied for a table outside Usable-Tables is in no
\* get_table_info output.
C7_CustomInfoWithinUsable ==
  self.constructed =>
    /\ DOMAIN self.custom_table_info \subseteq self.usable_tables
    /\ DOMAIN self.custom_table_info \subseteq DOMAIN supplied
    /\ \A t \in DOMAIN self.custom_table_info : self.custom_table_info[t] = supplied[t]
    /\ (IsTableInfoCall /\ ~last.outcome.raised) =>
         \A t \in DOMAIN supplied \ self.usable_tables :
           /\ ~Occurs(supplied[t], last.outcome.text)
           /\ \A i \in DOMAIN last.outcome.blocks : last.outcome.blocks[i].text # supplied[t]

C7_Witness ==
  /\ self.constructed
  /\ last.op = "get_table_info"
  /\ ~last.outcome.raised
  /\ last.outcome.blocks = <<[table |-> "users", text |-> CustomText("users")]>>
  /\ DOMAIN supplied = {"orders", "users"}
  /\ self.usable_tables = {"users"}
  /\ DOMAIN self.custom_table_info = {"users"}

\* the iterations of the loop (so the blocks) whose SAMPLE query failed during the
\* last call: every iteration starts with a DESCRIBE
Iteration(i) == Cardinality({j \in 1..i : issued[j].cmd = "DESCRIBE"})
Unsampled == {Iteration(i) : i \in FailedCmds({"SAMPLE"})}

\* the same describe call with every SAMPLE query succeeding
WithoutSampleFailure ==
  get_table_info(self,
                 [given |-> TRUE,
                  table_names |-> [i \in DOMAIN last.outcome.blocks |-> last.outcome.blocks[i].table]],
                 [order |-> <<>>, fatal |-> NoFault, err |-> NoExc, sample_fail |-> {}])

\* C8: with sample_rows_in_table_info > 0, SAMPLE queries that fail do not abort
\* get_table_info: while DESCRIBE and the primary-key query succeed the call
\* returns, the description of a table whose sampling failed has no sample-rows
\* section, and every other description, sample section included, is what it is
\* when no sampling fails; for every set of descriptions whose sampling fails (a
\* table requested twice is described twice, each time with its own SAMPLE query).
C8_SamplingFailureIsPerTable ==
  (/\ IsTableInfoCall
   /\ self.sample_rows_in_table_info > 0
   /\ Targets \subseteq self.usable_tables
   /\ FailedCmds({"DESCRIBE", "PRIMARY KEYS"}) = {}) =>
    /\ ~last.outcome.raised
    /\ Len(last.outcome.blocks) = Len(WithoutSampleFailure.outcome.blocks)
    /\ \A i \in DOMAIN last.outcome.blocks :
         LET b == last.outcome.blocks[i]
         IN IF i \in Unsampled
            THEN "-- Sample Rows:" \notin Range(b.text)
            ELSE /\ b.text = WithoutSampleFailure.outcome.blocks[i].text
                 /\ b.table \notin DOMAIN self.custom_table_info =>
                      "-- Sample Rows:" \in Range(b.text)

C8_Witness ==
  /\ last.op = "get_table_info"
  /\ self.sample_rows_in_table_info > 0
  /\ ~last.outcome.raised
  /\ Len(last.outcome.blocks) = 2
  /\ Unsampled = {1}
  /\ last.outcome.blocks[1].table # last.outcome.blocks[2].table
  /\ "-- Sample Rows:" \notin Range(last.outcome.blocks[1].text)
  /\ "-- Sample Rows:" \in Range(last.outcome.blocks[2].text)

\* the primary-key columns the metadata query returns for t
PrimaryKeyColumns(t) == {PrimaryKeyRows(t)[i][1] : i \in DOMAIN PrimaryKeyRows(t)}

\* the lines of `text` that say "Primary keys are ...": one column, or a list of them
PrimaryKeyLines(t, text) ==
  {i \in DOMAIN text :
     \/ \E c \in PrimaryKeyColumns(t) : text[i] = "Primary keys are " \o c
     \/ \E k \in 0..Len(PrimaryKeyRows(t)) :
          text[i] = "Primary keys are "
                      \o StrList(get_all_table_names(SubSeq(PrimaryKeyRows(t), 1, k)))}

\* C9: with primary-key rendering on, the block of a table without a custom entry
\* has exactly one line "Primary keys are <col>" per primary-key column the metadata
\* query returns: n lines for n columns, each naming one column, none for no column.
C9_OneLinePerPrimaryKey ==
  (IsTableInfoCall /\ self.indexes_in_table_info /\ ~last.outcome.raised) =>
    \A i \in DOMAIN last.outcome.blocks :
      LET b == last.outcome.blocks[i]
      IN b.table \notin DOMAIN self.custom_table_info =>
           /\ Cardinality(PrimaryKeyLines(b.table, b.text)) = Len(PrimaryKeyRows(b.table))
           /\ \A c \in PrimaryKeyColumns(b.table) :
                Cardinality({j \in DOMAIN b.text : b.text[j] = "Primary keys are " \o c}) = 1

\* what resolving against the store's present table list would give
LiveResolution ==
  IF self.include_tables # {}
  THEN [raised |-> ~(self.include_tables \subseteq store_tables), names |-> self.include_tables]
  ELSE [raised |-> FALSE, names |-> store_tables \ self.ignore_tables]

LiveDiffers ==
  LiveResolution.raised \/ LiveResolution.names # self.usable_tables

\* C10 (as stated): get_usable_table_names follows the store: called after a schema
\* change that makes the resolution against the store's present tables differ from
\* the cached Usable-Tables, it returns a different set (or raises).
C10_AccessorFollowsTheStore ==
  (last.op = "get_usable_table_names" /\ LiveDiffers) =>
    (last.outcome.raised \/ last.outcome.names # self.usable_tables)

\* C10 (amended): get_usable_table_names recomputes the include/ignore logic on
\* each call from the All-Tables set cached at construction, so on a constructed
\* object it never raises and returns exactly the cached Usable-Tables, whatever
\* has happened to the store's table list since.
C10_AccessorEqualsCached ==
  last.op = "get_usable_table_names" =>
    (~last.outcome.raised /\ last.outcome.names = self.usable_tables)

C10_Witness ==
  /\ last.op = "get_usable_table_names"
  /\ self.ignore_tables = {"users"}
  /\ self.all_tables = {"users"}
  /\ store_tables = {"orders"}
  /\ LiveDiffers
  /\ last.outcome.names = {}

====
